---- MODULE Spec2Model ----
(***************************************************************************)
(* The upload form of the prediction front end (src/app/page.tsx), its     *)
(* batch variant (src/unnamed/part_000, third component) and its earlier   *)
(* form without weights (src/unnamed/part_001): CSV ingestion, the single  *)
(* cancellable remote call, and the allocation report parser.              *)
(*                                                                         *)
(* Spec is page.tsx and the batch variant, SpecLegacy the earlier form,    *)
(* SpecValidate the run of validateCSVFiles alone over a filled-in form,   *)
(* SpecParse the parsing of a success response alone over its body,        *)
(* SpecView the results view of the first component of part_000 over a     *)
(* stored response, SpecLive is Spec with the progress the code can count  *)
(* on.                                                                     *)
(*                                                                         *)
(* Text is modelled as a sequence of tokens.  A token is a string that the *)
(* code never looks inside: one character, or a whole word such as         *)
(* "Results:", "Block Size" or "csv".                                      *)
(***************************************************************************)
EXTENDS Integers, Sequences, FiniteSets, TLC

(* ------------------------------ bounds --------------------------------- *)

\* Largest file count the model lets the user choose (the code allows K).
MaxFiles == 2

\* Longest report, in lines, and longest batch_results array, given to the
\* report parser where it is examined alone.
MaxLines == 4
MaxBatches == 2

\* Most batches of a dataset of the results view.
MaxMembers == 2

(* --------------------------- text primitives --------------------------- *)

TAB == "\t"
SPACE == " "
DOT == "."

\* String.prototype.trim removes leading and trailing white space, tabs too.
IsSpace(c) == c \in {SPACE, TAB}

RECURSIVE TrimStart(_)
TrimStart(s) ==
  IF s = <<>> THEN <<>>
  ELSE IF IsSpace(Head(s)) THEN TrimStart(Tail(s)) ELSE s

RECURSIVE TrimEnd(_)
TrimEnd(s) ==
  IF s = <<>> THEN <<>>
  ELSE IF IsSpace(s[Len(s)]) THEN TrimEnd(SubSeq(s, 1, Len(s) - 1)) ELSE s

Trim(s) == TrimEnd(TrimStart(s))

\* String.prototype.includes for a one-token needle.
Includes(s, tok) == \E k \in 1..Len(s) : s[k] = tok

\* String.prototype.split(sep): always at least one field, empty fields kept.
RECURSIVE SplitFrom(_, _, _, _)
SplitFrom(s, sep, cur, acc) ==
  IF s = <<>> THEN Append(acc, cur)
  ELSE IF Head(s) = sep THEN SplitFrom(Tail(s), sep, <<>>, Append(acc, cur))
  ELSE SplitFrom(Tail(s), sep, Append(cur, Head(s)), acc)

Split(s, sep) == SplitFrom(s, sep, <<>>, <<>>)

\* Array.prototype.join(sep) of a sequence of texts.
RECURSIVE Join(_, _)
Join(parts, sep) ==
  IF parts = <<>> THEN <<>>
  ELSE IF Len(parts) = 1 THEN parts[1]
  ELSE parts[1] \o <<sep>> \o Join(Tail(parts), sep)

\* String.prototype.toLowerCase on the tokens file names are made of.
LowerTok(c) ==
  CASE c = "CSV" -> "csv"
    [] c = "Csv" -> "csv"
    [] c = "TXT" -> "txt"
    [] c = "A" -> "a"
    [] c = "N" -> "n"
    [] OTHER -> c

ToLowerCase(s) == [k \in 1..Len(s) |-> LowerTok(s[k])]

\* String.prototype.endsWith.
EndsWith(s, suf) ==
  /\ Len(s) >= Len(suf)
  /\ SubSeq(s, Len(s) - Len(suf) + 1, Len(s)) = suf

Digits == {"0", "1", "2", "3", "4", "5", "6", "7", "8", "9"}

DigitVal(c) ==
  CASE c = "0" -> 0 [] c = "1" -> 1 [] c = "2" -> 2 [] c = "3" -> 3
    [] c = "4" -> 4 [] c = "5" -> 5 [] c = "6" -> 6 [] c = "7" -> 7
    [] c = "8" -> 8 [] OTHER -> 9

RECURSIVE DigitRun(_, _, _)
\* value and length of the longest run of digits at the head of s
DigitRun(s, val, n) ==
  IF s # <<>> /\ Head(s) \in Digits
  THEN DigitRun(Tail(s), 10 * val + DigitVal(Head(s)), n + 1)
  ELSE [val |-> val, n |-> n]

\* parseInt(text): white space, optional sign, digits; NaN when no digit.
ParseInt(s) ==
  LET t == TrimStart(s)
      neg == t # <<>> /\ Head(t) = "-"
      u == IF t # <<>> /\ Head(t) \in {"-", "+"} THEN Tail(t) ELSE t
      r == DigitRun(u, 0, 0)
  IN  [nan |-> r.n = 0, val |-> IF neg THEN 0 - r.val ELSE r.val]

(* ------------------------------ the data ------------------------------- *)

\* Maximum file count: page.tsx accepts 1..10, the batch variant 1..5, the
\* earlier component of src/unnamed/part_001 ("legacy") 1..10.
KPage == 10
KBatch == 5
KLegacy == 10

Variants == {"page", "batch"}

\* A slot of fileInputs: null, or a File of which only the name is visible
\* before it is tokenized.
NoFile == [present |-> FALSE, name |-> <<>>]
FileNamed(n) == [present |-> TRUE, name |-> n]

CsvName == <<"a", DOT, "CSV">>
FileNames == { CsvName, <<"n", DOT, "txt">> }
\* Names that differ in their dots: two of them, and none before "csv".
TwoDotName == <<"b", DOT, "x", DOT, "Csv">>
NoDotName == <<"n", "csv">>
DottedNames == { CsvName, TwoDotName, NoDotName }

\* A parsed row is the set of its column names (header: true).
DayNo == "Day No."
NumEntries == "Number of entries"
BothCols == {DayNo, NumEntries}

\* What the tokenizer may hand to `complete`: result.data.
RowSamples ==
  { <<>>, <<{DayNo}, BothCols>>, <<{NumEntries}, BothCols>>, <<BothCols>>,
    <<BothCols, {DayNo}>> }

\* What the tokenizer may hand to `error`.
ParseErrSamples ==
  { [isError |-> TRUE, message |-> <<"read failed">>],
    [isError |-> FALSE, message |-> <<>>] }

\* The text typed into a number input.
CountInputs ==
  { <<"1">>, <<"2">>, <<"3">>, <<"0">>, <<"-", "1">>, <<>>, <<"x">>,
    <<"1", "1">>, <<"6">>, <<"1", "e", "2">> }
SizeInputs == { <<"0">>, <<"-", "2">> }

(* ------------------------------ messages ------------------------------- *)

\* A message is a template of the code with the values interpolated in it.
Msg(tmpl, args) == [tmpl |-> tmpl, args |-> args]
Null == Msg("null", <<>>)

MissingFileMsg == Msg("Please upload all required CSV files.", <<>>)
NotCsvMsg(name) == Msg("File ${file.name} is not a CSV file.", <<name>>)
MissingColumnsMsg(name) ==
  Msg("File ${file.name} is missing required columns 'Day No.' and/or 'Number of entries'.",
      <<name>>)
\* err instanceof Error ? err.message : <fallback>
MessageOf(err, fallback) == IF err.isError THEN err.message ELSE fallback
ParseFailureMsg(name, err) ==
  Msg("Error parsing file ${file.name}: ${message}",
      <<name, MessageOf(err, <<"Unknown error">>)>>)
ApiFailedMsg(status, text) ==
  Msg("API request failed with status ${response.status}: ${text}",
      <<<<ToString(status)>>, text>>)
CaughtMsg(err) ==
  IF err.isError THEN Msg("${err.message}", <<err.message>>)
  ELSE Msg("An unknown error occurred", <<>>)

\* The errors the platform raises.
JsError(name, message) == [isError |-> TRUE, name |-> name, message |-> message]
AbortError == JsError("AbortError", <<"signal is aborted without reason">>)
NetworkError == JsError("TypeError", <<"Failed to fetch">>)
SyntaxError == JsError("SyntaxError", <<"Unexpected token in JSON">>)
NullDeref == JsError("TypeError", <<"Cannot read properties of null">>)
NotAFunction == JsError("TypeError", <<"forEach is not a function">>)

(* -------------------------- the response body -------------------------- *)

\* A report field of the response: missing (or otherwise falsy), a truthy
\* value that is no string, or a string given as its lines (text.split("\n")).
NoReport == [kind |-> "absent", lines |-> <<>>]
NonStringReport == [kind |-> "nonstring", lines |-> <<>>]
ReportText(lines) == [kind |-> "text", lines |-> lines]

\* if (x.buddy_allocation_output): the empty string is falsy.
Truthy(report) ==
  \/ report.kind = "nonstring"
  \/ report.kind = "text" /\ report.lines # << <<>> >>

\* An element of batch_results: null, or an object.
NullBatch ==
  [kind |-> "null", batch_number |-> 0, batch_name |-> <<>>, report |-> NoReport]
Batch(num, name, report) ==
  [kind |-> "object", batch_number |-> num, batch_name |-> name, report |-> report]

\* result.batch_results: missing, a truthy value that is no array, or an array.
NoBatches == [kind |-> "absent", items |-> <<>>]
NonArrayBatches == [kind |-> "nonarray", items |-> <<>>]
BatchArray(items) == [kind |-> "array", items |-> items]

\* The value response.json() resolves to: null, or an object.
JsonNull == [kind |-> "null", report |-> NoReport, batches |-> NoBatches]
JsonObject(report, batches) ==
  [kind |-> "object", report |-> report, batches |-> batches]

GoodLines ==
  << <<"Summary">>,
     <<"Results:">>,
     <<"Block Size", TAB, "Count">>,
     <<"4", TAB, "10">>,
     <<"8">>,
     <<>> >>
NoMarkerLines == << <<"Block Size", TAB, "Count">>, <<"4", TAB, "10">> >>

\* The bodies the remote service answers a success status with.
Payloads ==
  { JsonNull,
    JsonObject(NoReport, NoBatches),
    JsonObject(NonStringReport, NonArrayBatches),
    JsonObject(ReportText(GoodLines),
               BatchArray(<<Batch(1, <<"b1">>, ReportText(NoMarkerLines)),
                            Batch(2, <<"b2">>, ReportText(GoodLines))>>)),
    JsonObject(ReportText(NoMarkerLines),
               BatchArray(<<Batch(1, <<"b1">>, ReportText(GoodLines)),
                            NullBatch>>)) }

\* A response body: its text (response.text()), and the value it denotes
\* when the text is JSON (response.json()).
JsonBody(value) == [isJson |-> TRUE, value |-> value, text |-> <<"{json}">>]
TextBody(text) == [isJson |-> FALSE, value |-> JsonNull, text |-> text]
Bodies == { JsonBody(p) : p \in Payloads } \cup { TextBody(<<>>), TextBody(<<"busy">>) }

\* Status codes; response.ok is 200..299.
Statuses == {200, 500}
Ok(status) == status >= 200 /\ status <= 299

\* What fetch resolves to.
Responses == [status : Statuses, body : Bodies]
NoResponse == [status |-> 0, body |-> TextBody(<<>>)]

(* -------------------------- the report parser -------------------------- *)

\* The loop over the lines: inResults, headerLine and resultsTable.
\* headerLine is null until a header is met (hasHeader).
ScanState == [inResults |-> FALSE, hasHeader |-> FALSE, headerLine |-> <<>>,
              resultsTable |-> <<>>]

\* Variant of ScanLine that takes a header line wherever it stands.
ScanLineHeaderAnywhere(st, line) ==
  IF Trim(line) = <<"Results:">>
  THEN [st EXCEPT !.inResults = TRUE]
  ELSE IF Includes(line, "Block Size")
  THEN [st EXCEPT !.hasHeader = TRUE, !.headerLine = Split(Trim(line), TAB)]
  ELSE IF st.inResults /\ Trim(line) # <<>> /\ st.hasHeader
  THEN LET values == Split(Trim(line), TAB)
       IN  IF Len(values) = Len(st.headerLine)
           THEN [st EXCEPT !.resultsTable = Append(@, values)]
           ELSE st
  ELSE st

\* Variant of ScanLine that does not wait for the marker.
ScanLineWithoutMarker(st, line) ==
  IF Trim(line) = <<"Results:">>
  THEN [st EXCEPT !.inResults = TRUE]
  ELSE IF Includes(line, "Block Size")
  THEN [st EXCEPT !.hasHeader = TRUE, !.headerLine = Split(Trim(line), TAB)]
  ELSE IF Trim(line) # <<>> /\ st.hasHeader
  THEN LET values == Split(Trim(line), TAB)
       IN  IF Len(values) = Len(st.headerLine)
           THEN [st EXCEPT !.resultsTable = Append(@, values)]
           ELSE st
  ELSE st

ScanLine(st, line) ==
  IF Trim(line) = <<"Results:">>
  THEN [st EXCEPT !.inResults = TRUE]
  ELSE IF st.inResults /\ Includes(line, "Block Size")
  THEN [st EXCEPT !.hasHeader = TRUE, !.headerLine = Split(Trim(line), TAB)]
  ELSE IF st.inResults /\ Trim(line) # <<>> /\ st.hasHeader
  THEN LET values == Split(Trim(line), TAB)
       IN  IF Len(values) = Len(st.headerLine)
           THEN [st EXCEPT !.resultsTable = Append(@, values)]
           ELSE st
  ELSE st

RECURSIVE ScanLines(_, _)
ScanLines(st, lines) ==
  IF lines = <<>> THEN st ELSE ScanLines(ScanLine(st, Head(lines)), Tail(lines))

\* A derived table; a table of the single report carries no batch tag.
Table(num, name, headers, data) ==
  [batchNumber |-> num, batchName |-> name, headers |-> headers, data |-> data]

\* The tables one report contributes: none or one.  A truthy value that
\* is no string has no split method; the TypeError is caught and logged.
ParseReport(report, num, name) ==
  IF ~Truthy(report) \/ report.kind = "nonstring" THEN <<>>
  ELSE LET st == ScanLines(ScanState, report.lines)
       IN  IF st.hasHeader /\ Len(st.resultsTable) > 0
           THEN << Table(num, name, st.headerLine, st.resultsTable) >>
           ELSE <<>>

\* page.tsx: what follows setApiResponse(result).  thrown is the error
\* that escapes to the outer catch, parsed the value given to
\* setParsedResults (empty: not called).
NoThrow == [isError |-> FALSE, name |-> "", message |-> <<>>]

ParseSingle(result) ==
  IF result.kind = "null" THEN [threw |-> TRUE, thrown |-> NullDeref, parsed |-> <<>>]
  ELSE [threw |-> FALSE, thrown |-> NoThrow,
        parsed |-> ParseReport(result.report, 0, <<>>)]

\* Batch variant: batch_results.forEach.  Reading a property of a null
\* batch throws outside the inner try and ends the whole loop.
\* Variant of ForEachBatch that pushes the tables without their batch tags.
RECURSIVE ForEachBatchUntagged(_, _)
ForEachBatchUntagged(items, acc) ==
  IF items = <<>> THEN [threw |-> FALSE, thrown |-> NoThrow, parsed |-> acc]
  ELSE LET batch == Head(items)
       IN  IF batch.kind = "null"
           THEN [threw |-> TRUE, thrown |-> NullDeref, parsed |-> <<>>]
           ELSE ForEachBatchUntagged(Tail(items),
                  acc \o ParseReport(batch.report, 0, <<>>))

RECURSIVE ForEachBatch(_, _)
ForEachBatch(items, acc) ==
  IF items = <<>> THEN [threw |-> FALSE, thrown |-> NoThrow, parsed |-> acc]
  ELSE LET batch == Head(items)
       IN  IF batch.kind = "null"
           THEN [threw |-> TRUE, thrown |-> NullDeref, parsed |-> <<>>]
           ELSE ForEachBatch(Tail(items),
                  acc \o ParseReport(batch.report, batch.batch_number,
                                     batch.batch_name))

ParseBatches(result) ==
  IF result.kind = "null" THEN [threw |-> TRUE, thrown |-> NullDeref, parsed |-> <<>>]
  ELSE IF result.batches.kind = "absent"
  THEN [threw |-> FALSE, thrown |-> NoThrow, parsed |-> <<>>]
  ELSE IF result.batches.kind = "nonarray"
  THEN [threw |-> TRUE, thrown |-> NotAFunction, parsed |-> <<>>]
  ELSE ForEachBatch(result.batches.items, <<>>)

(* ------------------------------ the state ------------------------------ *)

VARIABLES
  variant,        \* which component is deployed
  scenario,       \* which family of inputs the environment draws from
  mounted,        \* the component is on screen; setters of an unmounted one do nothing
  numFiles, fileInputs, entrySizes,            \* useState: the form
  isLoading, apiResponse, error, parsedResults, \* useState: the submission
  pc,             \* where the running handleSubmit is suspended
  files, sizes,   \* fileInputs and entrySizes as the running handler closed over them
  i, datasets,    \* validateCSVFiles: loop index and accumulator
  turnData,       \* result.data of the loop turn that returned, if it got that far
  result,         \* validationResult, once validateCSVFiles has returned
  response,       \* the Response, once fetch has resolved
  request,        \* body of the request of this submission
  timer,          \* the setTimeout of the latest controller is pending
  stale,          \* a setTimeout of an earlier controller is still pending
  expired,        \* such a timer has fired while the pending fetch was in flight
  wire,           \* the request on the network
  reads,          \* slots handed to the tokenizer by this submission
  sent,           \* fetch calls of this submission
  outcomes,       \* outcomes applied by this submission
  cards           \* the dataset cards the results view has rendered

formVars == <<numFiles, fileInputs, entrySizes>>
viewVars == <<isLoading, apiResponse, error, parsedResults>>
runVars == <<pc, files, sizes, i, datasets, turnData, result, response, request>>
netVars == <<timer, stale, expired, wire>>
logVars == <<reads, sent, outcomes>>
envVars == <<variant, scenario>>
domVars == <<cards>>
vars == <<envVars, mounted, formVars, viewVars, runVars, netVars, logVars,
          domVars>>

K ==
  CASE variant = "page" -> KPage
    [] variant = "batch" -> KBatch
    [] OTHER -> KLegacy

NoResult == [returned |-> FALSE, valid |-> FALSE, datasets |-> <<>>]

\* const data = result.data, unassigned until the tokenizer has completed.
NoData == [parsed |-> FALSE, rows |-> <<>>]
ParsedData(data) == [parsed |-> TRUE, rows |-> data]
Returned(valid, ds) == [returned |-> TRUE, valid |-> valid, datasets |-> ds]

\* Array(n).fill(v)
Fill(n, v) == [k \in 1..n |-> v]

\* A state setter: React ignores it once the component is unmounted.
Set(old, new) == IF mounted THEN new ELSE old

\* The inputs the environment offers.  To keep the state space small it
\* varies either the files (names, rows, tokenizer failures) or the
\* weights typed for well-formed files, not both at once.  A third family,
\* used where only validateCSVFiles runs, varies the dots of the names.
Scenarios == {"files", "weights"}
InputFamilies == Scenarios \cup {"names"}
NameChoices ==
  CASE scenario = "files" -> FileNames
    [] scenario = "names" -> DottedNames
    [] OTHER -> {CsvName}
RowChoices == IF scenario = "files" THEN RowSamples ELSE { <<BothCols>> }
ParseErrChoices == IF scenario = "files" THEN ParseErrSamples ELSE {}
SizeChoices == IF scenario = "weights" THEN SizeInputs ELSE {}

Init ==
  /\ variant \in Variants
  /\ scenario \in Scenarios
  /\ mounted = TRUE
  /\ numFiles = 1
  /\ fileInputs = Fill(1, NoFile)
  /\ entrySizes = Fill(1, 1)
  /\ isLoading = FALSE
  /\ apiResponse = JsonNull
  /\ error = Null
  /\ parsedResults = <<>>
  /\ pc = "idle"
  /\ files = <<>>
  /\ sizes = <<>>
  /\ i = 0
  /\ datasets = <<>>
  /\ turnData = NoData
  /\ result = NoResult
  /\ response = NoResponse
  /\ request = <<>>
  /\ timer = FALSE
  /\ stale = FALSE
  /\ expired = FALSE
  /\ wire = "none"
  /\ reads = <<>>
  /\ sent = 0
  /\ outcomes = 0
  /\ cards = <<>>

(* ------------------------------ the form ------------------------------- *)

\* Variant of HandleNumFilesChange whose effect resizes the lists and keeps
\* what the slots that remain held.
HandleNumFilesChangeKeepingSlots(text) ==
  LET value == ParseInt(text)
      accepted == ~value.nan /\ value.val > 0 /\ value.val <= K
  IN  /\ mounted
      /\ accepted => value.val <= MaxFiles
      /\ IF accepted /\ value.val # numFiles
         THEN /\ numFiles' = value.val
              /\ fileInputs' = [k \in 1..value.val |->
                                 IF k <= numFiles THEN fileInputs[k] ELSE NoFile]
              /\ entrySizes' = [k \in 1..value.val |->
                                 IF k <= numFiles THEN entrySizes[k] ELSE 1]
         ELSE UNCHANGED formVars
      /\ UNCHANGED <<envVars, domVars, mounted, viewVars, runVars, netVars, logVars>>

\* handleNumFilesChange, and the effect on [numFiles] that follows a change.
HandleNumFilesChange(text) ==
  LET value == ParseInt(text)
      accepted == ~value.nan /\ value.val > 0 /\ value.val <= K
  IN  /\ mounted
      /\ accepted => value.val <= MaxFiles
      /\ IF accepted /\ value.val # numFiles
         THEN /\ numFiles' = value.val
              /\ fileInputs' = Fill(value.val, NoFile)
              /\ entrySizes' = Fill(value.val, 1)
         ELSE UNCHANGED formVars
      /\ UNCHANGED <<envVars, domVars, mounted, viewVars, runVars, netVars, logVars>>

\* handleFileChange with a file chosen (an empty choice changes nothing).
HandleFileChange(index, file) ==
  /\ mounted
  /\ index \in 1..numFiles
  /\ fileInputs' = [fileInputs EXCEPT ![index] = file]
  /\ UNCHANGED <<envVars, domVars, mounted, numFiles, entrySizes, viewVars, runVars,
                 netVars, logVars>>

\* parseInt(e.target.value) || 1
EntrySizeOf(text) ==
  LET value == ParseInt(text)
  IN  IF value.nan \/ value.val = 0 THEN 1 ELSE value.val

HandleEntrySizeChange(index, text) ==
  /\ mounted
  /\ index \in 1..numFiles
  /\ entrySizes' = [entrySizes EXCEPT ![index] = EntrySizeOf(text)]
  /\ UNCHANGED <<envVars, domVars, mounted, numFiles, fileInputs, viewVars, runVars,
                 netVars, logVars>>

\* The user navigates away: the form is gone.  The effect of the component
\* has no cleanup, so nothing else happens.
Unmount ==
  /\ mounted
  /\ mounted' = FALSE
  /\ numFiles' = 1
  /\ fileInputs' = Fill(1, NoFile)
  /\ entrySizes' = Fill(1, 1)
  /\ UNCHANGED <<envVars, domVars, viewVars, runVars, netVars, logVars>>

(* ---------------------------- validateCSVFiles ------------------------- *)

\* The value of error after a failure path of validateCSVFiles that began
\* with error = err: page.tsx and the batch variant call setError(msg), the
\* legacy component returns without calling it.
Reason(msg, err) == IF variant = "legacy" THEN err ELSE msg

\* return from validateCSVFiles; handleSubmit resumes in a later microtask.
Return(valid, ds, err) ==
  /\ pc' = "returned"
  /\ result' = Returned(valid, ds)
  /\ error' = Set(error, err)
  /\ datasets' = <<>>

\* Variant of LoopFrom without the test for an empty slot.
LoopFromNoNullCheck(fs, k, ds, err, rd) ==
  IF k > Len(fs)
  THEN /\ Return(TRUE, ds, err)
       /\ i' = k
       /\ reads' = rd
  ELSE IF ~EndsWith(ToLowerCase(fs[k].name), <<DOT, "csv">>)
  THEN /\ Return(FALSE, <<>>, Reason(NotCsvMsg(fs[k].name), err))
       /\ i' = k
       /\ reads' = rd
  ELSE /\ pc' = "parsing"
       /\ i' = k
       /\ datasets' = ds
       /\ result' = NoResult
       /\ error' = Set(error, err)
       /\ reads' = Append(rd, k)

\* Variant of LoopFrom that does not await the tokenizer: with slot k
\* handed over it goes on to slot k + 1 at once.
LoopFromNoAwait(fs, k, ds, err, rd) ==
  IF k > Len(fs)
  THEN /\ Return(TRUE, ds, err)
       /\ i' = k
       /\ reads' = rd
  ELSE IF ~fs[k].present
  THEN /\ Return(FALSE, <<>>, Reason(MissingFileMsg, err))
       /\ i' = k
       /\ reads' = rd
  ELSE IF ~EndsWith(ToLowerCase(fs[k].name), <<DOT, "csv">>)
  THEN /\ Return(FALSE, <<>>, Reason(NotCsvMsg(fs[k].name), err))
       /\ i' = k
       /\ reads' = rd
  ELSE /\ pc' = "parsing"
       /\ i' = IF k < Len(fs) /\ fs[k + 1].present THEN k + 1 ELSE k
       /\ datasets' = ds
       /\ result' = NoResult
       /\ error' = Set(error, err)
       /\ reads' = IF k < Len(fs) /\ fs[k + 1].present
                    THEN rd \o <<k, k + 1>> ELSE Append(rd, k)

\* Variant of LoopFrom that compares the name as it is spelled.
LoopFromCaseSensitive(fs, k, ds, err, rd) ==
  IF k > Len(fs)
  THEN /\ Return(TRUE, ds, err)
       /\ i' = k
       /\ reads' = rd
  ELSE IF ~fs[k].present
  THEN /\ Return(FALSE, <<>>, Reason(MissingFileMsg, err))
       /\ i' = k
       /\ reads' = rd
  ELSE IF ~EndsWith(fs[k].name, <<DOT, "csv">>)
  THEN /\ Return(FALSE, <<>>, Reason(NotCsvMsg(fs[k].name), err))
       /\ i' = k
       /\ reads' = rd
  ELSE /\ pc' = "parsing"
       /\ i' = k
       /\ datasets' = ds
       /\ result' = NoResult
       /\ error' = Set(error, err)
       /\ reads' = Append(rd, k)

\* One turn of the for loop from slot k, up to its await or its return.
\* err is the value of error when the turn begins, rd the slots read so far.
LoopFrom(fs, k, ds, err, rd) ==
  IF k > Len(fs)
  THEN /\ Return(TRUE, ds, err)
       /\ i' = k
       /\ reads' = rd
  ELSE IF ~fs[k].present
  THEN /\ Return(FALSE, <<>>, Reason(MissingFileMsg, err))
       /\ i' = k
       /\ reads' = rd
  ELSE IF ~EndsWith(ToLowerCase(fs[k].name), <<DOT, "csv">>)
  THEN /\ Return(FALSE, <<>>, Reason(NotCsvMsg(fs[k].name), err))
       /\ i' = k
       /\ reads' = rd
  ELSE /\ pc' = "parsing"
       /\ i' = k
       /\ datasets' = ds
       /\ result' = NoResult
       /\ error' = Set(error, err)
       /\ reads' = Append(rd, k)

\* file.name.split(".").slice(0, -1).join(".")
DatasetName(name) ==
  LET parts == Split(name, DOT)
  IN  Join(SubSeq(parts, 1, Len(parts) - 1), DOT)

\* The legacy component pushes { name, data }, the others add entry_size.
Dataset(name, data, size) ==
  IF variant = "legacy"
  THEN [name |-> DatasetName(name), data |-> data]
  ELSE [name |-> DatasetName(name), data |-> data, entry_size |-> size]

\* Variant of ColumnsMissing that is satisfied by any row with both columns.
ColumnsMissingInEveryRow(data) ==
  \A k \in 1..Len(data) : DayNo \notin data[k] \/ NumEntries \notin data[k]

\* Variant of ColumnsMissing that lets an empty row sequence pass.
ColumnsMissingUnlessEmpty(data) ==
  /\ Len(data) > 0
  /\ DayNo \notin data[1] \/ NumEntries \notin data[1]

\* !data[0] || !("Day No." in data[0]) || !("Number of entries" in data[0])
ColumnsMissing(data) ==
  \/ Len(data) = 0
  \/ DayNo \notin data[1]
  \/ NumEntries \notin data[1]

\* Variant of HandleSubmit that leaves isLoading alone.
HandleSubmitNoLoading ==
  /\ mounted
  /\ ~isLoading
  /\ UNCHANGED isLoading
  /\ apiResponse' = JsonNull
  /\ parsedResults' = <<>>
  /\ files' = fileInputs
  /\ sizes' = entrySizes
  /\ response' = NoResponse
  /\ request' = <<>>
  /\ wire' = "none"
  /\ sent' = 0
  /\ outcomes' = 0
  /\ LoopFrom(fileInputs, 1, <<>>, Null, <<>>)
  /\ turnData' = NoData
  /\ UNCHANGED <<envVars, domVars, mounted, formVars, timer, stale, expired>>

\* Variant of HandleSubmit whose button is never disabled.
HandleSubmitAlwaysEnabled ==
  /\ mounted
  /\ isLoading' = TRUE
  /\ apiResponse' = JsonNull
  /\ parsedResults' = <<>>
  /\ files' = fileInputs
  /\ sizes' = entrySizes
  /\ response' = NoResponse
  /\ request' = <<>>
  /\ wire' = "none"
  /\ sent' = 0
  /\ outcomes' = 0
  /\ LoopFrom(fileInputs, 1, <<>>, Null, <<>>)
  /\ turnData' = NoData
  /\ UNCHANGED <<envVars, domVars, mounted, formVars, timer, stale, expired>>

\* Variant of HandleSubmit without the three clearing setters.
HandleSubmitKeepsPrevious ==
  /\ mounted
  /\ ~isLoading
  /\ isLoading' = TRUE
  /\ UNCHANGED <<apiResponse, parsedResults>>
  /\ files' = fileInputs
  /\ sizes' = entrySizes
  /\ response' = NoResponse
  /\ request' = <<>>
  /\ wire' = "none"
  /\ sent' = 0
  /\ outcomes' = 0
  /\ LoopFrom(fileInputs, 1, <<>>, error, <<>>)
  /\ turnData' = NoData
  /\ UNCHANGED <<envVars, domVars, mounted, formVars, timer, stale, expired>>

\* The click on the button: handleSubmit up to the first await.
HandleSubmit ==
  /\ mounted
  /\ ~isLoading
  /\ isLoading' = TRUE
  /\ apiResponse' = JsonNull
  /\ parsedResults' = <<>>
  /\ files' = fileInputs
  /\ sizes' = entrySizes
  /\ response' = NoResponse
  /\ request' = <<>>
  /\ wire' = "none"
  /\ sent' = 0
  /\ outcomes' = 0
  /\ LoopFrom(fileInputs, 1, <<>>, Null, <<>>)
  /\ turnData' = NoData
  /\ UNCHANGED <<envVars, domVars, mounted, formVars, timer, stale, expired>>

\* Variant of ParseComplete that collects what it can: a file without the
\* columns is left out and the loop goes on.
ParseCompleteSkipsBadFile(data) ==
  /\ pc = "parsing"
  /\ turnData' = NoData
  /\ IF ColumnsMissing(data)
     THEN LoopFrom(files, i + 1, datasets, error, reads)
     ELSE LoopFrom(files, i + 1,
                   Append(datasets, Dataset(files[i].name, data, sizes[i])),
                   error, reads)
  /\ UNCHANGED <<envVars, domVars, mounted, formVars, isLoading, apiResponse,
                 parsedResults, files, sizes, response, request, netVars,
                 sent, outcomes>>

\* Variant of ParseComplete that reads the weight from the state of the
\* form as it is when the tokenizer completes.
ParseCompleteLiveWeights(data) ==
  /\ pc = "parsing"
  /\ IF ColumnsMissing(data)
     THEN /\ Return(FALSE, <<>>, Reason(MissingColumnsMsg(files[i].name), error))
          /\ turnData' = ParsedData(data)
          /\ UNCHANGED <<i, reads>>
     ELSE /\ LoopFrom(files, i + 1,
                      Append(datasets,
                             Dataset(files[i].name, data,
                                     IF i \in DOMAIN entrySizes
                                     THEN entrySizes[i] ELSE 0)),
                      error, reads)
          /\ turnData' = NoData
  /\ UNCHANGED <<envVars, domVars, mounted, formVars, isLoading, apiResponse,
                 parsedResults, files, sizes, response, request, netVars,
                 sent, outcomes>>

\* Papa.parse calls complete: the rest of the loop turn, and the next one.
ParseComplete(data) ==
  /\ pc = "parsing"
  /\ IF ColumnsMissing(data)
     THEN /\ Return(FALSE, <<>>, Reason(MissingColumnsMsg(files[i].name), error))
          /\ turnData' = ParsedData(data)
          /\ UNCHANGED <<i, reads>>
     ELSE /\ LoopFrom(files, i + 1,
                      Append(datasets, Dataset(files[i].name, data, sizes[i])),
                      error, reads)
          /\ turnData' = NoData
  /\ UNCHANGED <<envVars, domVars, mounted, formVars, isLoading, apiResponse,
                 parsedResults, files, sizes, response, request, netVars,
                 sent, outcomes>>

\* Papa.parse calls error: the catch of the loop body.
ParseError(err) ==
  /\ pc = "parsing"
  /\ Return(FALSE, <<>>, Reason(ParseFailureMsg(files[i].name, err), error))
  /\ UNCHANGED <<envVars, domVars, mounted, formVars, isLoading, apiResponse,
                 parsedResults, files, sizes, i, turnData, response, request,
                 netVars, logVars>>

(* ------------------------------ handleSubmit --------------------------- *)

\* JSON.stringify(validationResult.datasets): one element per dataset, in
\* order, each with the members the dataset object has.
Stringify(ds) ==
  [k \in 1..Len(ds) |->
     { <<"name", ds[k].name>>, <<"data", ds[k].data>> }
     \cup (IF "entry_size" \in DOMAIN ds[k]
           THEN { <<"entry_size", ds[k].entry_size>> }
           ELSE {})]

\* Variant of Resume that does not look at validationResult.valid.
ResumeIgnoringValidity ==
  /\ pc = "returned"
  /\ timer' = TRUE
  /\ stale' = (stale \/ timer)
  /\ expired' = FALSE
  /\ request' = Stringify(result.datasets)
  /\ wire' = "sent"
  /\ sent' = sent + 1
  /\ pc' = "fetching"
  /\ result' = NoResult
  /\ turnData' = NoData
  /\ files' = <<>>
  /\ sizes' = <<>>
  /\ i' = 0
  /\ UNCHANGED <<envVars, domVars, mounted, formVars, viewVars, datasets, response,
                 reads, outcomes>>

\* handleSubmit resumes after validateCSVFiles: the early return, or the
\* controller, the timer and the fetch call.
Resume ==
  /\ pc = "returned"
  /\ IF ~result.valid
     THEN /\ isLoading' = Set(isLoading, FALSE)
          /\ pc' = "idle"
          /\ UNCHANGED <<request, timer, stale, expired, wire, sent>>
     ELSE /\ timer' = TRUE
          /\ stale' = (stale \/ timer)
          /\ expired' = FALSE
          /\ request' = Stringify(result.datasets)
          /\ wire' = "sent"
          /\ sent' = sent + 1
          /\ pc' = "fetching"
          /\ UNCHANGED isLoading
  /\ result' = NoResult
  /\ turnData' = NoData
  /\ files' = <<>>
  /\ sizes' = <<>>
  /\ i' = 0
  /\ UNCHANGED <<envVars, domVars, mounted, formVars, apiResponse, error,
                 parsedResults, datasets, response, reads, outcomes>>

\* Variant of Fail that stores and parses the body of the failed call.
FailStoringResponse(msg) ==
  /\ error' = Set(error, msg)
  /\ isLoading' = Set(isLoading, FALSE)
  /\ pc' = "idle"
  /\ request' = <<>>
  /\ response' = NoResponse
  /\ outcomes' = outcomes + 1
  /\ apiResponse' = Set(apiResponse, response.body.value)
  /\ parsedResults' =
       IF response.body.value.kind = "object"
       THEN ParseReport(response.body.value.report, 0, <<>>)
       ELSE parsedResults

\* The outer catch and the finally of handleSubmit.
Fail(msg) ==
  /\ error' = Set(error, msg)
  /\ isLoading' = Set(isLoading, FALSE)
  /\ pc' = "idle"
  /\ request' = <<>>
  /\ response' = NoResponse
  /\ outcomes' = outcomes + 1
  /\ UNCHANGED <<apiResponse, parsedResults>>

\* fetch resolves with the status line; the timer is cleared at once.
FetchResolve(resp) ==
  /\ pc = "fetching"
  /\ response' = resp
  /\ timer' = FALSE
  /\ wire' = "responded"
  /\ pc' = IF Ok(resp.status) THEN "json" ELSE "text"
  /\ request' = <<>>
  /\ expired' = FALSE
  /\ UNCHANGED <<envVars, domVars, mounted, formVars, viewVars, files, sizes, i,
                 datasets, turnData, result, stale, logVars>>

\* Variant of FetchReject that issues the request again.
FetchRejectRetry ==
  /\ pc = "fetching"
  /\ sent < 3
  /\ sent' = sent + 1
  /\ wire' = "sent"
  /\ stale' = (stale \/ timer)
  /\ timer' = TRUE
  /\ UNCHANGED <<envVars, domVars, mounted, formVars, viewVars, runVars, reads,
                 outcomes, expired>>

\* fetch rejects because the network failed; nothing clears the timer.
FetchReject ==
  /\ pc = "fetching"
  /\ wire' = "failed"
  /\ expired' = FALSE
  /\ Fail(CaughtMsg(NetworkError))
  /\ UNCHANGED <<envVars, domVars, mounted, formVars, files, sizes, i, datasets, turnData,
                 result, timer, stale, reads, sent>>

\* Variant of TimerFire in which fetch was not given the signal: abort()
\* is called and the fetch stays pending.
TimerFireNoSignal ==
  /\ timer
  /\ timer' = FALSE
  /\ wire' = IF pc = "fetching" THEN "aborted" ELSE wire
  /\ UNCHANGED <<envVars, domVars, mounted, formVars, viewVars, runVars, stale, expired,
                 logVars>>

\* The timer of the latest controller fires: controller.abort().  A fetch
\* still pending on its signal rejects with an AbortError.
TimerFire ==
  /\ timer
  /\ timer' = FALSE
  /\ IF pc = "fetching"
     THEN /\ wire' = "aborted"
          /\ Fail(CaughtMsg(AbortError))
     ELSE UNCHANGED <<viewVars, pc, wire, request, response, outcomes>>
  /\ expired' = FALSE
  /\ UNCHANGED <<envVars, domVars, mounted, formVars, files, sizes, i, datasets, turnData,
                 result, stale, reads, sent>>

\* The timer of an earlier controller fires: abort() on a controller whose
\* fetch has settled.  Other such timers may remain.
\* Variant of StaleTimerFire for a controller shared by the submissions:
\* the abort() of the earlier timer reaches the fetch now pending.
StaleTimerFireSharedController ==
  /\ stale
  /\ stale' \in BOOLEAN
  /\ IF pc = "fetching"
     THEN /\ wire' = "aborted"
          /\ expired' = FALSE
          /\ Fail(CaughtMsg(AbortError))
     ELSE UNCHANGED <<viewVars, pc, wire, request, response, outcomes, expired>>
  /\ UNCHANGED <<envVars, domVars, mounted, formVars, files, sizes, i, datasets,
                 turnData, result, timer, reads, sent>>

StaleTimerFire ==
  /\ stale
  /\ stale' \in BOOLEAN
  /\ expired' = (pc = "fetching")
  /\ UNCHANGED <<envVars, domVars, mounted, formVars, viewVars, runVars, timer, wire,
                 logVars>>

\* Variant of LateResponse in which the answer to the aborted request is
\* still stored.
LateResponseStored ==
  /\ wire = "aborted"
  /\ wire' = "discarded"
  /\ apiResponse' = Set(apiResponse, JsonObject(NoReport, NoBatches))
  /\ UNCHANGED <<envVars, domVars, mounted, formVars, isLoading, error,
                 parsedResults, runVars, timer, stale, expired, logVars>>

\* The answer to an aborted request reaches the client: nobody awaits it.
LateResponse ==
  /\ wire = "aborted"
  /\ wire' = "discarded"
  /\ UNCHANGED <<envVars, domVars, mounted, formVars, viewVars, runVars, timer,
                 stale, expired, logVars>>

ParseResults(body) ==
  IF variant = "batch" THEN ParseBatches(body) ELSE ParseSingle(body)

\* response.json() resolves: setApiResponse, the report parsing, finally.
JsonComplete ==
  /\ pc = "json"
  /\ response.body.isJson
  /\ LET body == response.body.value
         r == ParseResults(body)
     IN  /\ apiResponse' = Set(apiResponse, body)
         /\ parsedResults' =
              IF r.parsed # <<>> THEN Set(parsedResults, r.parsed)
              ELSE parsedResults
         /\ error' = IF r.threw THEN Set(error, CaughtMsg(r.thrown)) ELSE error
  /\ isLoading' = Set(isLoading, FALSE)
  /\ pc' = "idle"
  /\ response' = NoResponse
  /\ wire' = "delivered"
  /\ outcomes' = outcomes + 1
  /\ UNCHANGED <<envVars, domVars, mounted, formVars, files, sizes, i, datasets, turnData,
                 result, request, timer, stale, expired, reads, sent>>

\* response.json() rejects: the body is no JSON.
JsonSyntaxError ==
  /\ pc = "json"
  /\ ~response.body.isJson
  /\ wire' = "delivered"
  /\ Fail(CaughtMsg(SyntaxError))
  /\ UNCHANGED <<envVars, domVars, mounted, formVars, files, sizes, i, datasets, turnData,
                 result, timer, stale, expired, reads, sent>>

\* Variant of TextComplete that leaves the body out of the message.
TextCompleteNoBody ==
  /\ pc = "text"
  /\ wire' = "delivered"
  /\ Fail(ApiFailedMsg(response.status, <<>>))
  /\ UNCHANGED <<envVars, domVars, mounted, formVars, files, sizes, i, datasets, turnData,
                 result, timer, stale, expired, reads, sent>>

\* response.text() resolves: the Error thrown for a failure status.
TextComplete ==
  /\ pc = "text"
  /\ wire' = "delivered"
  /\ Fail(ApiFailedMsg(response.status, response.body.text))
  /\ UNCHANGED <<envVars, domVars, mounted, formVars, files, sizes, i, datasets, turnData,
                 result, timer, stale, expired, reads, sent>>

\* response.json() or response.text() rejects: the connection broke while
\* the body was being read.
BodyReject ==
  /\ pc \in {"json", "text"}
  /\ wire' = "broken"
  /\ Fail(CaughtMsg(NetworkError))
  /\ UNCHANGED <<envVars, domVars, mounted, formVars, files, sizes, i, datasets, turnData,
                 result, timer, stale, expired, reads, sent>>

(* --------------------------- the specification ------------------------- *)

Next ==
  \/ \E text \in CountInputs : HandleNumFilesChange(text)
  \/ \E index \in 1..MaxFiles, name \in NameChoices :
       HandleFileChange(index, FileNamed(name))
  \/ \E index \in 1..MaxFiles, text \in SizeChoices :
       HandleEntrySizeChange(index, text)
  \/ Unmount
  \/ HandleSubmit
  \/ \E data \in RowChoices : ParseComplete(data)
  \/ \E err \in ParseErrChoices : ParseError(err)
  \/ Resume
  \/ \E resp \in Responses : FetchResolve(resp)
  \/ FetchReject
  \/ TimerFire
  \/ StaleTimerFire
  \/ LateResponse
  \/ JsonComplete
  \/ JsonSyntaxError
  \/ TextComplete
  \/ BodyReject

Spec == Init /\ [][Next]_vars

\* The same component under the two assumptions of progress the code can
\* rely on: the tokenizer calls complete or error and the awaiting handler
\* resumes, and a pending setTimeout fires.  Nothing makes the network
\* answer, fail, or finish a body.
Tokenizes ==
  \/ \E data \in RowChoices : ParseComplete(data)
  \/ \E err \in ParseErrChoices : ParseError(err)
  \/ Resume

SpecLive ==
  /\ Init
  /\ [][Next]_vars
  /\ WF_vars(Tokenizes)
  /\ WF_vars(TimerFire)

\* The legacy component (src/unnamed/part_001): the same form without the
\* weight inputs.
InitLegacy ==
  /\ variant = "legacy"
  /\ scenario = "files"
  /\ mounted = TRUE
  /\ numFiles = 1
  /\ fileInputs = Fill(1, NoFile)
  /\ entrySizes = Fill(1, 1)
  /\ isLoading = FALSE
  /\ apiResponse = JsonNull
  /\ error = Null
  /\ parsedResults = <<>>
  /\ pc = "idle"
  /\ files = <<>>
  /\ sizes = <<>>
  /\ i = 0
  /\ datasets = <<>>
  /\ turnData = NoData
  /\ result = NoResult
  /\ response = NoResponse
  /\ request = <<>>
  /\ timer = FALSE
  /\ stale = FALSE
  /\ expired = FALSE
  /\ wire = "none"
  /\ reads = <<>>
  /\ sent = 0
  /\ outcomes = 0
  /\ cards = <<>>

NextLegacy ==
  \/ \E text \in CountInputs : HandleNumFilesChange(text)
  \/ \E index \in 1..MaxFiles, name \in NameChoices :
       HandleFileChange(index, FileNamed(name))
  \/ Unmount
  \/ HandleSubmit
  \/ \E data \in RowChoices : ParseComplete(data)
  \/ \E err \in ParseErrChoices : ParseError(err)
  \/ Resume
  \/ \E resp \in Responses : FetchResolve(resp)
  \/ FetchReject
  \/ TimerFire
  \/ StaleTimerFire
  \/ LateResponse
  \/ JsonComplete
  \/ JsonSyntaxError
  \/ TextComplete
  \/ BodyReject

SpecLegacy == InitLegacy /\ [][NextLegacy]_vars

\* validateCSVFiles alone: the form is filled in beforehand, in any way the
\* handlers of the form can fill it, and only the click, the tokenizer and
\* the return to handleSubmit (up to the fetch call) take steps.
SizeValues == {1} \cup { EntrySizeOf(text) : text \in SizeChoices }
SlotChoices == {NoFile} \cup { FileNamed(name) : name \in NameChoices }

InitValidate ==
  /\ variant \in Variants
  /\ scenario \in InputFamilies
  /\ mounted = TRUE
  /\ numFiles \in 1..MaxFiles
  /\ fileInputs \in [1..numFiles -> SlotChoices]
  /\ entrySizes \in [1..numFiles -> SizeValues]
  /\ isLoading = FALSE
  /\ apiResponse = JsonNull
  /\ error = Null
  /\ parsedResults = <<>>
  /\ pc = "idle"
  /\ files = <<>>
  /\ sizes = <<>>
  /\ i = 0
  /\ datasets = <<>>
  /\ turnData = NoData
  /\ result = NoResult
  /\ response = NoResponse
  /\ request = <<>>
  /\ timer = FALSE
  /\ stale = FALSE
  /\ expired = FALSE
  /\ wire = "none"
  /\ reads = <<>>
  /\ sent = 0
  /\ outcomes = 0
  /\ cards = <<>>

NextValidate ==
  \/ HandleSubmit
  \/ \E data \in RowChoices : ParseComplete(data)
  \/ \E err \in ParseErrChoices : ParseError(err)
  \/ Resume

SpecValidate == InitValidate /\ [][NextValidate]_vars

\* The report parsing alone: a success response of any sampled shape has
\* arrived and its body is about to be read.
SeqsUpTo(S, n) == UNION { [1..k -> S] : k \in 1..n }

\* Lines a report is made of.
LineSamples ==
  { <<"Results:">>,
    <<SPACE, "Results:", SPACE>>,
    <<"Block Size", TAB, "Count">>,
    <<"Block Size", TAB, "A", TAB, "B">>,
    <<"4", TAB, "10">>,
    <<"8", TAB, "5">>,
    <<"8", TAB>>,
    <<TAB, "4">>,
    <<"1", TAB, "2", TAB, "3">>,
    <<>> }

\* text.split("\n") of a string: at least one line.
ReportSamples ==
  { ReportText(lines) : lines \in SeqsUpTo(LineSamples, MaxLines) }
    \cup { NoReport, NonStringReport }

\* Elements of batch_results, told apart by their number and name.
BatchReportSamples ==
  { NoReport, NonStringReport, ReportText(GoodLines),
    ReportText(NoMarkerLines),
    ReportText(<< <<"Results:">>, <<"Block Size", TAB, "Count">>, <<"8">> >>) }
BatchSamples ==
  { Batch(7, <<"b7">>, r) : r \in BatchReportSamples }
    \cup { Batch(9, <<"b9">>, r) : r \in BatchReportSamples }
    \cup { NullBatch }
BatchesSamples ==
  { BatchArray(items) : items \in SeqsUpTo(BatchSamples, MaxBatches) }
    \cup { BatchArray(<<>>), NoBatches, NonArrayBatches }

ParsePayloads ==
  IF variant = "batch"
  THEN { JsonObject(NoReport, b) : b \in BatchesSamples }
  ELSE { JsonObject(r, NoBatches) : r \in ReportSamples }

InitParse ==
  /\ variant \in Variants
  /\ scenario = "files"
  /\ mounted = TRUE
  /\ numFiles = 1
  /\ fileInputs = Fill(1, FileNamed(CsvName))
  /\ entrySizes = Fill(1, 1)
  /\ isLoading = TRUE
  /\ apiResponse = JsonNull
  /\ error = Null
  /\ parsedResults = <<>>
  /\ pc = "json"
  /\ files = <<>>
  /\ sizes = <<>>
  /\ i = 0
  /\ datasets = <<>>
  /\ turnData = NoData
  /\ result = NoResult
  /\ response \in { [status |-> 200, body |-> JsonBody(p)] : p \in ParsePayloads }
  /\ request = <<>>
  /\ timer = FALSE
  /\ stale = FALSE
  /\ expired = FALSE
  /\ wire = "responded"
  /\ reads = <<1>>
  /\ sent = 1
  /\ outcomes = 0
  /\ cards = <<>>

NextParse == JsonComplete

SpecParse == InitParse /\ [][NextParse]_vars

(* --------------------------- the results view --------------------------- *)

\* Percentages are doubles; the model counts them in thousandths of a
\* percent, so 0.01 is 10 and 100 is Pct(100, 0).
Pct(whole, thousandths) == whole * 1000 + thousandths
Tolerance == 10
Abs(x) == IF x < 0 THEN 0 - x ELSE x

\* An entry of dataset_results: the total the service reports for the
\* dataset, and the percentages of its batches.
DatasetResult(total, percentages) ==
  [total_percentage_check |-> total, percentages |-> percentages]

\* The body of a success response of the results view (src/unnamed/part_000,
\* first component).
ViewObject(dataset_results) ==
  [kind |-> "object", report |-> NoReport, batches |-> NoBatches,
   dataset_results |-> dataset_results]

TotalSamples ==
  { Pct(100, 0), Pct(99, 990), Pct(99, 991), Pct(100, 9), Pct(100, 10),
    Pct(90, 0) }
PercentageSamples == { Pct(50, 0), Pct(49, 995), Pct(40, 0), Pct(60, 0) }
DatasetSamples ==
  { DatasetResult(t, ps) :
      t \in TotalSamples, ps \in SeqsUpTo(PercentageSamples, MaxMembers) }
PairSamples ==
  { DatasetResult(Pct(100, 0), <<Pct(60, 0), Pct(40, 0)>>),
    DatasetResult(Pct(100, 10), <<Pct(50, 0), Pct(50, 0)>>),
    DatasetResult(Pct(99, 991), <<Pct(49, 995), Pct(49, 995)>>) }
DatasetResultsSamples ==
  { <<>> } \cup { <<d>> : d \in DatasetSamples }
           \cup { <<d, e>> : d \in PairSamples, e \in PairSamples }

\* Variant of PercentageClass whose tolerance includes its end.
PercentageClassInclusive(dataset) ==
  IF Abs(dataset.total_percentage_check - Pct(100, 0)) <= Tolerance
  THEN "text-green-600" ELSE "text-red-600"

\* The class of the "Percentage Check" figure of one dataset card.
PercentageClass(dataset) ==
  IF Abs(dataset.total_percentage_check - Pct(100, 0)) < Tolerance
  THEN "text-green-600" ELSE "text-red-600"

\* The render of the "Dataset Results" tab: one card per entry of
\* apiResponse.dataset_results.
RenderDatasets ==
  /\ apiResponse.kind = "object"
  /\ "dataset_results" \in DOMAIN apiResponse
  /\ cards' = [k \in 1..Len(apiResponse.dataset_results) |->
                 [className |-> PercentageClass(apiResponse.dataset_results[k])]]
  /\ UNCHANGED <<envVars, mounted, formVars, viewVars, runVars, netVars,
                 logVars>>

\* The results view alone, over a stored response.
InitView ==
  /\ variant = "view"
  /\ scenario = "files"
  /\ mounted = TRUE
  /\ numFiles = 1
  /\ fileInputs = Fill(1, FileNamed(CsvName))
  /\ entrySizes = Fill(1, 1)
  /\ isLoading = FALSE
  /\ apiResponse \in { ViewObject(ds) : ds \in DatasetResultsSamples }
  /\ error = Null
  /\ parsedResults = <<>>
  /\ pc = "idle"
  /\ files = <<>>
  /\ sizes = <<>>
  /\ i = 0
  /\ datasets = <<>>
  /\ turnData = NoData
  /\ result = NoResult
  /\ response = NoResponse
  /\ request = <<>>
  /\ timer = FALSE
  /\ stale = FALSE
  /\ expired = FALSE
  /\ wire = "delivered"
  /\ reads = <<1>>
  /\ sent = 1
  /\ outcomes = 1
  /\ cards = <<>>

NextView == RenderDatasets

SpecView == InitView /\ [][NextView]_vars

(* ------------------------------------------------------------------------ *)
(*                       Ingestion and the remote call                      *)
(* ------------------------------------------------------------------------ *)

\* The submitted slots have an empty one; FirstAbsent is the lowest such.
HasAbsent(fs) == \E k \in 1..Len(fs) : ~fs[k].present
FirstAbsent(fs) ==
  CHOOSE k \in 1..Len(fs) :
    ~fs[k].present /\ \A j \in 1..(k - 1) : fs[j].present

Validating == pc \in {"parsing", "returned"}
Sending == pc \in {"fetching", "json", "text"}
IsCsvName(name) == EndsWith(ToLowerCase(name), <<DOT, "csv">>)

C2_RequestOnlyAfterAllValid ==
  /\ [](pc = "returned" /\ ~result.valid => sent = 0)
  /\ [][sent' # sent \/ (wire' = "sent" /\ wire # "sent") =>
          \/ sent' = 0 /\ wire' # "sent"
          \/ /\ pc = "returned"
             /\ result.valid
             /\ \A k \in 1..Len(files) :
                  files[k].present /\ IsCsvName(files[k].name)
             /\ reads = [k \in 1..Len(files) |-> k]
             /\ Len(result.datasets) = Len(files)
             /\ Len(request') = Len(files)]_vars

\* C2 witness: a submission was rejected at its second slot, after the
\* first file had been read, and has finished without a request.
C2_Witness ==
  /\ pc = "idle"
  /\ mounted
  /\ ~isLoading
  /\ reads = <<1>>
  /\ error.tmpl = NotCsvMsg(<<>>).tmpl
  /\ sent = 0
  /\ wire = "none"

\* C3: while a handleSubmit is running (validating or sending) isLoading
\* is true, so the button is disabled and no second handleSubmit starts; a
\* request is on the network only while its handleSubmit awaits the fetch,
\* and a submission has issued at most one.
C3_TriggerDisabledWhileRunning ==
  /\ pc # "idle" => isLoading
  /\ wire = "sent" => pc = "fetching"
  /\ sent <= 1

\* C3 witness: a request is outstanding and the button is disabled.
C3_Witness ==
  /\ mounted
  /\ pc = "fetching"
  /\ wire = "sent"
  /\ isLoading

\* C4: once the deadline has expired on a pending fetch, the call is over:
\* the outcome is the abort message, which differs from the message of a
\* network failure, the trigger is enabled again, and no response is
\* stored, also after the answer has arrived late.
C4_TimedOutIsFinal ==
  wire \in {"aborted", "discarded"} =>
    /\ pc = "idle"
    /\ outcomes = 1
    /\ apiResponse = JsonNull
    /\ parsedResults = <<>>
    /\ mounted => /\ ~isLoading
                  /\ error = CaughtMsg(AbortError)
                  /\ error # CaughtMsg(NetworkError)

\* C4 witness: the deadline expired, the answer arrived afterwards and was
\* discarded.
C4_Witness ==
  /\ mounted
  /\ wire = "discarded"
  /\ error = CaughtMsg(AbortError)
  /\ apiResponse = JsonNull
  /\ ~isLoading

\* C5: from the moment the request is issued until its outcome is applied,
\* the body being read included, the deadline timer is pending.
C5_DeadlineArmedUntilOutcome == Sending => timer

\* C6: once the user has navigated away no request stays on the network
\* without having been told to abort.
C6_UnmountSignalsAbort == ~mounted => wire # "sent"

\* C7: a submission issues at most one request and applies at most one
\* outcome: none of either while it validates or when it is rejected, one
\* request and no outcome yet while it awaits the call, and exactly one
\* outcome for its one request when it is over.
C7_OneRequestOneOutcome ==
  /\ sent <= 1
  /\ Validating => sent = 0 /\ outcomes = 0
  /\ Sending => sent = 1 /\ outcomes = 0
  /\ pc = "idle" => outcomes = sent

\* C7 witness: a call failed on the network and the submission is over
\* with its single request and single outcome.
C7_Witness ==
  /\ mounted
  /\ pc = "idle"
  /\ wire = "failed"
  /\ sent = 1
  /\ outcomes = 1
  /\ error = CaughtMsg(NetworkError)

\* C8: when a response with a success status has been received in full
\* and its body is a JSON object, the submission ends with that payload
\* stored and no reason set.
C8_OkStatusSucceeds ==
  [][/\ pc = "json"
     /\ wire' = "delivered"
     /\ mounted
     /\ response.body.isJson
     /\ response.body.value.kind = "object"
     => /\ ~isLoading'
        /\ error' = Null
        /\ apiResponse' = response.body.value]_vars

\* C9: when the body of a response with a failure status has been
\* received, the reason is the failure message with that status code and
\* that body text; no response is stored and no table derived.
C9_HttpErrorCarriesStatusAndBody ==
  /\ [](pc = "text" => /\ ~Ok(response.status)
                       /\ apiResponse = JsonNull
                       /\ parsedResults = <<>>)
  /\ [][pc = "text" /\ wire' = "delivered" /\ mounted =>
          /\ error' = ApiFailedMsg(response.status, response.body.text)
          /\ error'.args = << <<ToString(response.status)>>, response.body.text >>
          /\ apiResponse' = JsonNull
          /\ parsedResults' = <<>>
          /\ ~isLoading']_vars

\* C9 witness: a 500 answer with body "busy" has been turned into the reason.
C9_Witness ==
  /\ mounted
  /\ pc = "idle"
  /\ wire = "delivered"
  /\ error = ApiFailedMsg(500, <<"busy">>)
  /\ apiResponse = JsonNull

\* The submission state of section 3, read off the component.
State ==
  IF Validating THEN "Validating"
  ELSE IF Sending THEN "Sending"
  ELSE IF wire = "none" THEN (IF error = Null THEN "Idle" ELSE "Rejected")
  ELSE IF error = Null THEN "Succeeded" ELSE "Failed"

Transitions ==
  { <<"Idle", "Validating">>, <<"Validating", "Rejected">>,
    <<"Validating", "Sending">>, <<"Sending", "Succeeded">>,
    <<"Sending", "Failed">>, <<"Rejected", "Validating">>,
    <<"Succeeded", "Validating">>, <<"Failed", "Validating">> }

\* C10: while the component is mounted the submission state changes only
\* along Idle -> Validating -> (Rejected | Sending) -> (Succeeded |
\* Failed); Sending is entered only when every slot has validated, and
\* Rejected, Succeeded and Failed are left only by a click on the enabled
\* button.
C10_StateMachine ==
  [][mounted' /\ State' # State =>
       /\ <<State, State'>> \in Transitions
       /\ State' = "Sending" =>
            /\ result.valid
            /\ Len(result.datasets) = Len(files)
            /\ Len(reads) = Len(files)
       /\ State \in {"Rejected", "Succeeded", "Failed"} =>
            ~isLoading /\ isLoading']_vars

\* C10 witness: a submission went through to Succeeded.
C10_Witness ==
  /\ mounted
  /\ State = "Succeeded"
  /\ apiResponse # JsonNull
  /\ sent = 1

(* ------------------------------------------------------------------------ *)
(*                          Reasons and validation                          *)
(* ------------------------------------------------------------------------ *)

\* The text of a reason is not empty: it is a template of the code with
\* fixed words, or the message of the error that was caught.
NonEmptyReason(msg) ==
  /\ msg # Null
  /\ msg.tmpl = "${err.message}" => msg.args[1] # <<>>

\* The reason is one of the three that interpolate file.name.
NamesFile(msg, name) ==
  /\ msg.tmpl \in { NotCsvMsg(<<>>).tmpl, MissingColumnsMsg(<<>>).tmpl,
                    "Error parsing file ${file.name}: ${message}" }
  /\ msg.args[1] = name
  /\ name # <<>>

\* C11: every step that ends a submission without a stored response, the
\* return after a failed validation included, leaves a non-empty reason
\* on screen; when validation stopped at a slot that holds a file, the
\* reason names that file.
C11_ReasonAlwaysSet ==
  [][/\ pc # "idle"
     /\ pc' = "idle"
     /\ mounted'
     /\ apiResponse' = JsonNull
     => /\ NonEmptyReason(error')
        /\ (pc = "returned" /\ i <= Len(files) /\ files[i].present) =>
             NamesFile(error', files[i].name)]_vars

\* The validator has not decided yet, or has accepted every slot.
Undecided == pc = "parsing" \/ (pc = "returned" /\ result.valid)

\* C12: from the click on, while the submission is validating or sending,
\* no response, no derived table and no reason is present, whatever the
\* previous submission left; a submission that ended with a delivered
\* response and no reason has that response installed.
C12_ClearedWhileRunning ==
  /\ (Undecided \/ Sending) =>
       /\ apiResponse = JsonNull
       /\ parsedResults = <<>>
       /\ error = Null
  /\ (State = "Succeeded" /\ mounted) => apiResponse.kind = "object"

\* C12 witness: an earlier submission failed on the network (its timer is
\* still pending), and the next one is being tokenized with the reason
\* cleared.
C12_Witness ==
  /\ mounted
  /\ pc = "parsing"
  /\ stale
  /\ error = Null
  /\ apiResponse = JsonNull
  /\ parsedResults = <<>>

\* The slots 1..n in order.
UpTo(n) == [k \in 1..n |-> k]

\* Slot k passed the two checks made before it is tokenized.
PassedNameChecks(fs, k) == fs[k].present /\ IsCsvName(fs[k].name)

\* The reason validateCSVFiles gives when it stops at slot k of fs.
ReasonOfSlot(msg, fs, k) ==
  IF ~fs[k].present THEN msg = MissingFileMsg
  ELSE IF ~IsCsvName(fs[k].name) THEN msg = NotCsvMsg(fs[k].name)
  ELSE \/ msg = MissingColumnsMsg(fs[k].name)
       \/ \E err \in ParseErrSamples : msg = ParseFailureMsg(fs[k].name, err)

\* C13: the slots are handed to the tokenizer one at a time in slot order.
\* While slot i is being tokenized it is the last one handed over, the
\* slots 1..i-1 were handed over before it in order, and each of them has
\* validated (its dataset is collected).  When validation is rejected at
\* slot i, every slot before i passed, no slot after i was handed over,
\* and the reason on screen is that of slot i.
C13_OneSlotAtATimeInOrder ==
  /\ pc = "parsing" =>
       /\ i \in 1..Len(files)
       /\ reads = UpTo(i)
       /\ Len(datasets) = i - 1
       /\ \A j \in 1..i : PassedNameChecks(files, j)
       /\ \A j \in 1..(i - 1) : datasets[j].name = DatasetName(files[j].name)
  /\ (pc = "returned" /\ ~result.valid) =>
       /\ i \in 1..Len(files)
       /\ \A j \in 1..(i - 1) : PassedNameChecks(files, j)
       /\ reads = IF PassedNameChecks(files, i) THEN UpTo(i) ELSE UpTo(i - 1)
       /\ mounted => ReasonOfSlot(error, files, i)

\* C13 witness: the first file validated, then the second was tokenized
\* and lacks the columns; the rejection names the second file.
C13_Witness ==
  /\ mounted
  /\ pc = "returned"
  /\ ~result.valid
  /\ i = 2
  /\ reads = <<1, 2>>
  /\ error = MissingColumnsMsg(files[2].name)

\* C14: when validateCSVFiles returns valid there is one dataset per slot,
\* the k-th made from the k-th slot (its name from that file's name, its
\* weight from that slot's weight), and every slot was tokenized in order.
\* When it returns invalid at slot i no slot after i was tokenized and the
\* result has no datasets, whatever had been collected before.
C14_OrderAndShortCircuit ==
  /\ (pc = "returned" /\ result.valid) =>
       /\ Len(result.datasets) = Len(files)
       /\ reads = UpTo(Len(files))
       /\ \A k \in 1..Len(files) :
            /\ result.datasets[k].name = DatasetName(files[k].name)
            /\ result.datasets[k].entry_size = sizes[k]
            /\ ~ColumnsMissing(result.datasets[k].data)
  /\ (pc = "returned" /\ ~result.valid) =>
       /\ result.datasets = <<>>
       /\ \A k \in 1..Len(reads) : reads[k] <= i
       /\ Len(reads) <= i

\* C14 witness: two files with different names validated and the two
\* datasets are returned in slot order.
C14_Witness ==
  /\ pc = "returned"
  /\ result.valid
  /\ Len(files) = 2
  /\ files[1].name = TwoDotName
  /\ files[2].name = CsvName
  /\ result.datasets[1].name = <<"b", DOT, "x">>
  /\ result.datasets[2].name = <<"a">>

\* C14 witness of the short circuit: the first of two files failed after
\* it was tokenized, and the second, a good one, was never examined.
C14_WitnessShortCircuit ==
  /\ pc = "returned"
  /\ ~result.valid
  /\ Len(files) = 2
  /\ i = 1
  /\ reads = <<1>>
  /\ PassedNameChecks(files, 2)

\* The first parsed row exists and lacks a required column.
FirstRowLacksColumn(rows) ==
  /\ Len(rows) > 0
  /\ \E col \in BothCols : col \notin rows[1]

\* The datasets collected so far and those returned.
Collected ==
  { datasets[k] : k \in 1..Len(datasets) }
    \cup { result.datasets[k] : k \in 1..Len(result.datasets) }

\* The loop turn of slot i has returned with the missing-columns reason.
RejectedForColumns ==
  /\ ~result.valid
  /\ result.datasets = <<>>
  /\ i \in 1..Len(files)
  /\ reads = UpTo(i)
  /\ mounted => error = MissingColumnsMsg(files[i].name)

\* C15: a file whose first parsed row lacks "Day No." or "Number of
\* entries" never becomes a dataset, whatever its later rows hold; the
\* turn that tokenized it returns invalid with the missing-columns reason
\* naming that file.
C15_FirstRowLackingColumnRejected ==
  /\ \A d \in Collected : ~FirstRowLacksColumn(d.data)
  /\ (pc = "returned" /\ turnData.parsed /\ FirstRowLacksColumn(turnData.rows))
       => RejectedForColumns

\* C15 witness: the first row has only "Day No.", the second row has both
\* columns, and the file is rejected for its columns.
C15_Witness ==
  /\ mounted
  /\ pc = "returned"
  /\ turnData = ParsedData(<<{DayNo}, BothCols>>)
  /\ error = MissingColumnsMsg(files[i].name)
  /\ ~result.valid

\* C16: a file that tokenizes to no row at all never becomes a dataset;
\* the turn that tokenized it returns invalid with the missing-columns
\* reason naming that file.
C16_ZeroRowsRejected ==
  /\ \A d \in Collected : d.data # <<>>
  /\ (pc = "returned" /\ turnData.parsed /\ turnData.rows = <<>>)
       => RejectedForColumns

\* C16 witness: the tokenizer completed with no rows and the file is
\* rejected for its columns.
C16_Witness ==
  /\ mounted
  /\ pc = "returned"
  /\ turnData = ParsedData(<<>>)
  /\ error = MissingColumnsMsg(files[i].name)
  /\ result = Returned(FALSE, <<>>)

\* The value of member key of an element of the request.
Member(obj, key) == (CHOOSE p \in obj : p[1] = key)[2]
HasMember(obj, key) == \E p \in obj : p[1] = key

\* The file name up to its last dot.
LastDot(name) ==
  CHOOSE k \in 1..Len(name) :
    name[k] = DOT /\ \A j \in (k + 1)..Len(name) : name[j] # DOT
WithoutExtension(name) == SubSeq(name, 1, LastDot(name) - 1)

\* C17: every dataset of a request has at least one row, each of its rows
\* has both "Day No." and "Number of entries", and its name is the name
\* of its file up to the last dot.
C17_DatasetInvariant ==
  /\ \A k \in 1..Len(request) :
       /\ Member(request[k], "data") # <<>>
       /\ \A r \in 1..Len(Member(request[k], "data")) :
            BothCols \subseteq Member(request[k], "data")[r]
  /\ (pc = "returned" /\ result.valid) =>
       \A k \in 1..Len(files) :
         result.datasets[k].name = WithoutExtension(files[k].name)

\* The name ends in a dot followed by "csv" in any mix of cases.
CsvSpellings == {"csv", "CSV", "Csv"}
EndsInCsvAnyCase(name) ==
  /\ Len(name) >= 2
  /\ name[Len(name) - 1] = DOT
  /\ name[Len(name)] \in CsvSpellings

\* C18: a file is handed to the tokenizer only if its name ends in ".csv"
\* in any mix of cases.  When validation stops at a slot that holds a
\* file, then either the name ends so, the file was tokenized and the
\* reason is not the not-CSV one, or the name does not end so, the file
\* was not tokenized and the reason is the not-CSV message with that name.
C18_CsvSuffixAnyCase ==
  /\ Validating =>
       \A k \in 1..Len(reads) : EndsInCsvAnyCase(files[reads[k]].name)
  /\ (pc = "returned" /\ ~result.valid /\ files[i].present) =>
       IF EndsInCsvAnyCase(files[i].name)
       THEN /\ reads = UpTo(i)
            /\ mounted => error.tmpl # NotCsvMsg(<<>>).tmpl
       ELSE /\ reads = UpTo(i - 1)
            /\ mounted => error = NotCsvMsg(files[i].name)
            /\ mounted => error.args = <<files[i].name>>

\* C18 witness: a file named a.CSV is with the tokenizer.
C18_Witness ==
  /\ pc = "parsing"
  /\ files[i].name = <<"a", DOT, "CSV">>
  /\ reads = UpTo(i)

\* C18 witness of the rejection: a file whose name ends in csv without a
\* dot before it is rejected by name, untokenized.
C18_WitnessRejected ==
  /\ mounted
  /\ pc = "returned"
  /\ files[i].present
  /\ files[i].name = NoDotName
  /\ i \notin { reads[k] : k \in 1..Len(reads) }
  /\ error = NotCsvMsg(NoDotName)

(* ------------------------------------------------------------------------ *)
(*                               The request                                *)
(* ------------------------------------------------------------------------ *)

\* C19: a request has one element per validated slot, and an element has
\* an entry_size member only if the user typed a weight for it: in the
\* behaviours where no weight is ever typed (the family "files") no
\* element of any request has the member.
C19_EntrySizeOnlyIfSupplied ==
  pc = "fetching" =>
    /\ Len(request) = Len(reads)
    /\ scenario = "files" =>
         \A k \in 1..Len(request) : ~HasMember(request[k], "entry_size")

\* C20: every entry_size member of a request is a positive integer.
C20_EntrySizePositive ==
  \A k \in 1..Len(request) :
    HasMember(request[k], "entry_size") =>
      /\ Member(request[k], "entry_size") \in Nat
      /\ Member(request[k], "entry_size") > 0

(* ------------------------------------------------------------------------ *)
(*                            The report parser                             *)
(* ------------------------------------------------------------------------ *)

\* The grammar of a report as section 4.4 of the specification gives it,
\* written down independently of ScanLine.
RawCells(line) == Split(line, TAB)
IsMarker(line) == Trim(line) = <<"Results:">>
HasMarker(lines) == \E k \in 1..Len(lines) : IsMarker(lines[k])
MarkerAt(lines) ==
  CHOOSE k \in 1..Len(lines) :
    IsMarker(lines[k]) /\ \A j \in 1..(k - 1) : ~IsMarker(lines[j])
IsHeaderLike(line) == Includes(line, "Block Size")
HasHeader(lines) ==
  /\ HasMarker(lines)
  /\ \E k \in (MarkerAt(lines) + 1)..Len(lines) : IsHeaderLike(lines[k])
\* The first line after the marker that contains "Block Size".
HeaderAt(lines) ==
  CHOOSE k \in (MarkerAt(lines) + 1)..Len(lines) :
    /\ IsHeaderLike(lines[k])
    /\ \A j \in (MarkerAt(lines) + 1)..(k - 1) : ~IsHeaderLike(lines[j])
HeaderCells(lines) == RawCells(lines[HeaderAt(lines)])
\* The non-empty lines after the header: the candidate data rows.
IsCandidate(lines, k) == k > HeaderAt(lines) /\ lines[k] # <<>>
WellFormedRow(lines, k) ==
  IsCandidate(lines, k) /\ Len(RawCells(lines[k])) = Len(HeaderCells(lines))
ExpectedRowsAt(lines) ==
  SelectSeq(UpTo(Len(lines)), LAMBDA k : WellFormedRow(lines, k))
ExpectedRows(lines) ==
  [j \in 1..Len(ExpectedRowsAt(lines)) |-> RawCells(lines[ExpectedRowsAt(lines)[j]])]
\* The table of a report text, none when there is no marker, no header or
\* no well-formed row.
ExpectedTable(lines, num, name) ==
  IF ~HasHeader(lines) THEN <<>>
  ELSE IF ExpectedRows(lines) = <<>> THEN <<>>
  ELSE << Table(num, name, HeaderCells(lines), ExpectedRows(lines)) >>

\* The body of a success response has been read and parsed; Report is the
\* text of its single report, when it has one.
BodyParsed == pc = "idle" /\ wire = "delivered" /\ apiResponse.kind = "object"
SingleParsed == BodyParsed /\ variant # "batch" /\ apiResponse.report.kind = "text"
Report == apiResponse.report.lines

\* C21: every derived table is rectangular: each row has as many cells as
\* there are headers.
C21_TablesRectangular ==
  \A t \in 1..Len(parsedResults) :
    \A r \in 1..Len(parsedResults[t].data) :
      Len(parsedResults[t].data[r]) = Len(parsedResults[t].headers)

\* C22: the headers of the table of a report are the tab-separated cells
\* of the first line after the marker that contains "Block Size".
C22_FirstHeaderKept ==
  (SingleParsed /\ parsedResults # <<>>) =>
    /\ HasHeader(Report)
    /\ parsedResults[1].headers = HeaderCells(Report)

\* "Block Size" appears in one line only.
OneHeaderLine(lines) ==
  Cardinality({ k \in 1..Len(lines) : IsHeaderLike(lines[k]) }) <= 1

\* C23: for a report in which only one line contains "Block Size", the
\* parser gives the table of the grammar: the header's cells and, in order,
\* the cells of the later non-empty lines that have as many tab-separated
\* fields as the header, empty first and last fields counted.
C23_RowsAreRawFields ==
  (SingleParsed /\ OneHeaderLine(Report)) =>
    parsedResults = ExpectedTable(Report, 0, <<>>)

\* The rows of the table derived from the single report, as a set.
DerivedRows ==
  IF parsedResults = <<>> THEN {}
  ELSE { parsedResults[1].data[r] : r \in 1..Len(parsedResults[1].data) }

\* C24: the rows of the table are the cells of exactly the well-formed
\* candidate lines: a candidate whose field count differs from the
\* header's contributes nothing, in no altered form, and every candidate
\* with the header's field count is a row, wherever the others stand.
C24_MismatchedRowsDropped ==
  (SingleParsed /\ HasHeader(Report)) =>
    DerivedRows =
      { RawCells(Report[k]) : k \in { j \in 1..Len(Report) : WellFormedRow(Report, j) } }

\* C25: a report text none of whose lines is "Results:" once trimmed
\* gives no table.
C25_NoMarkerNoTable ==
  (SingleParsed /\ ~HasMarker(Report)) => parsedResults = <<>>

\* C25 witness: a header line and a matching row without any marker have
\* been parsed, and no table is derived.
C25_Witness ==
  /\ SingleParsed
  /\ Report = << <<"Block Size", TAB, "Count">>, <<"4", TAB, "10">> >>
  /\ parsedResults = <<>>
  /\ error = Null

\* C26: a report text with a marker and a header all of whose candidate
\* lines have a field count other than the header's gives no table.
C26_OnlyMalformedRowsNoTable ==
  (/\ SingleParsed
   /\ HasHeader(Report)
   /\ \A k \in 1..Len(Report) : ~WellFormedRow(Report, k))
  => parsedResults = <<>>

\* The body of a success response of the batch variant whose
\* batch_results is an array has been parsed.
BatchParsed ==
  BodyParsed /\ variant = "batch" /\ apiResponse.batches.kind = "array"

Batches == apiResponse.batches.items

\* The table the grammar gives for one batch: none for a null entry and
\* for a report that is missing or no string.
ExpectedOfBatch(batch) ==
  IF batch.kind # "object" \/ batch.report.kind # "text" THEN <<>>
  ELSE ExpectedTable(batch.report.lines, batch.batch_number, batch.batch_name)

RECURSIVE ExpectedTables(_)
ExpectedTables(items) ==
  IF items = <<>> THEN <<>>
  ELSE ExpectedOfBatch(Head(items)) \o ExpectedTables(Tail(items))

\* C27: every batch whose report is well-formed has its table among the
\* derived tables, whatever the other entries of batch_results are:
\* null entries, and reports that are missing, no string or malformed.
C27_SiblingsStillParsed ==
  BatchParsed =>
    \A k \in 1..Len(Batches) :
      ExpectedOfBatch(Batches[k]) # <<>> =>
        \E t \in 1..Len(parsedResults) :
          parsedResults[t] = ExpectedOfBatch(Batches[k])[1]

\* C28: a success response whose body is an object ends without a
\* failure reason, whatever its report fields hold.
C28_ParseFailuresNeverFail ==
  BodyParsed => error = Null

C29_WitnessSkipped ==
  /\ BatchParsed
  /\ Len(Batches) = 2
  /\ Batches[1].kind = "object" /\ Batches[1].report = NoReport
  /\ Len(parsedResults) = 1
  /\ parsedResults[1].batchNumber = Batches[2].batch_number

(* --------------------------- failed submissions ------------------------- *)

\* The reasons of the three failures of the remote call.
HttpFailed ==
  \E status \in Statuses, body \in Bodies : error = ApiFailedMsg(status, body.text)
TransportFailed == error = CaughtMsg(NetworkError)
TimedOut == error = CaughtMsg(AbortError)

\* C30: when a submission has ended with the reason of an HTTP error, of a
\* transport error or of a timeout, no response is stored and no table is
\* derived.
C30_FailedHasNoResponseNoTables ==
  (pc = "idle" /\ (HttpFailed \/ TransportFailed \/ TimedOut)) =>
    /\ apiResponse = JsonNull
    /\ parsedResults = <<>>

\* C30 witness: a failure status whose body was JSON ended the submission;
\* the body was neither stored nor parsed.
C30_Witness ==
  /\ mounted
  /\ pc = "idle"
  /\ wire = "delivered"
  /\ error = ApiFailedMsg(500, <<"{json}">>)
  /\ apiResponse = JsonNull
  /\ parsedResults = <<>>

(* ------------------------------------------------------------------------ *)
(*                            The results view                              *)
(* ------------------------------------------------------------------------ *)

RECURSIVE SumOf(_)
SumOf(ps) == IF ps = <<>> THEN 0 ELSE Head(ps) + SumOf(Tail(ps))

Rendered ==
  /\ variant = "view"
  /\ Len(cards) = Len(apiResponse.dataset_results)
  /\ cards # <<>>

\* C31 as stated: a dataset is shown balanced exactly when the sum of the
\* percentages of its batches is less than 0.01 away from 100.
C31_BalancedIffMembersSumNear100 ==
  Rendered =>
    \A k \in 1..Len(cards) :
      cards[k].className = "text-green-600"
        <=> Abs(SumOf(apiResponse.dataset_results[k].percentages) - Pct(100, 0))
              < Tolerance

\* C31 amended: a dataset is shown balanced exactly when the total the
\* response reports for it, total_percentage_check, is strictly less than
\* 0.01 away from 100.
C31_BalancedIffReportedTotalNear100 ==
  Rendered =>
    \A k \in 1..Len(cards) :
      cards[k].className = "text-green-600"
        <=> /\ apiResponse.dataset_results[k].total_percentage_check > Pct(99, 990)
            /\ apiResponse.dataset_results[k].total_percentage_check < Pct(100, 10)

\* C31 witness: totals of 100.010 and of 99.991 were rendered, the first
\* shown unbalanced and the second balanced.
C31_Witness ==
  /\ Rendered
  /\ Len(cards) = 2
  /\ apiResponse.dataset_results[1].total_percentage_check = Pct(100, 10)
  /\ cards[1].className = "text-red-600"
  /\ apiResponse.dataset_results[2].total_percentage_check = Pct(99, 991)
  /\ cards[2].className = "text-green-600"

(* ------------------------------------------------------------------------ *)
(*                      Timers, liveness and snapshots                      *)
(* ------------------------------------------------------------------------ *)

\* C32: a timer left by an earlier submission that fires while a request
\* is pending leaves that request pending, with its own timer armed and
\* the view as it was; and a pending request becomes aborted only in a
\* step in which the timer of its own controller fires.
C32_OnlyOwnTimerAborts ==
  /\ [](expired => pc = "fetching" /\ wire = "sent" /\ timer)
  /\ [][(expired' /\ ~expired) =>
          /\ pc' = pc /\ wire' = wire /\ request' = request /\ timer' = timer
          /\ UNCHANGED viewVars]_vars
  /\ [][(wire = "sent" /\ wire' = "aborted") => (timer /\ ~timer')]_vars

\* C32 witness: a timer of an earlier submission has fired during the
\* request of the present one, which is still pending under its own timer.
C32_Witness ==
  /\ mounted
  /\ expired
  /\ pc = "fetching"
  /\ wire = "sent"
  /\ timer
  /\ isLoading
  /\ error = Null

\* C33: while the component is on screen, a disabled trigger is enabled
\* again, given only that the tokenizer completes and that a pending
\* deadline timer fires.
C33_TriggerReenabled ==
  (mounted /\ isLoading) ~> (~mounted \/ ~isLoading)

\* The datasets ds are those of the first Len(ds) submitted slots: the
\* name of the submitted file and, where weights exist, the submitted one.
FromSnapshot(ds) ==
  /\ Len(ds) <= Len(files)
  /\ \A k \in 1..Len(ds) :
       /\ files[k].present
       /\ ds[k].name = DatasetName(files[k].name)
       /\ "entry_size" \in DOMAIN ds[k] => ds[k].entry_size = sizes[k]

\* C34: the trigger takes the slots and weights as they are; what the
\* validator collects comes from them; the request is the collected
\* datasets; and a change of the form while the submission is validating
\* or sending changes nothing of it.
C34_RequestFromSnapshot ==
  /\ [][(~isLoading /\ isLoading') =>
          (files' = fileInputs /\ sizes' = entrySizes)]_vars
  /\ [](pc = "parsing" => FromSnapshot(datasets))
  /\ []((pc = "returned" /\ result.valid) =>
          (FromSnapshot(result.datasets) /\ Len(result.datasets) = Len(files)))
  /\ [][(pc = "returned" /\ pc' = "fetching") =>
          request' = Stringify(result.datasets)]_vars
  /\ [][((Validating \/ Sending) /\ formVars' # formVars) =>
          UNCHANGED <<viewVars, runVars, netVars, logVars>>]_vars

\* C34 witness: the request in flight carries the weight 1 the slot had at
\* the trigger, the weight having been edited to -2 since.
C34_Witness ==
  /\ mounted
  /\ pc = "fetching"
  /\ wire = "sent"
  /\ Len(request) = 1
  /\ <<"entry_size", 1>> \in request[1]
  /\ entrySizes = <<0 - 2>>

\* C34 witness: the request in flight carries the one file of the trigger,
\* the file count having been changed to 2 since.
C34_WitnessCount ==
  /\ mounted
  /\ pc = "fetching"
  /\ wire = "sent"
  /\ Len(request) = 1
  /\ numFiles = 2
  /\ fileInputs = Fill(2, NoFile)

(* ------------------------------------------------------------------------ *)
(*                             The file count                               *)
(* ------------------------------------------------------------------------ *)

AllDigits(s) == s # <<>> /\ \A k \in 1..Len(s) : s[k] \in Digits
ValueOf(s) == DigitRun(s, 0, 0).val
RECURSIVE TenTo(_)
TenTo(n) == IF n = 0 THEN 1 ELSE 10 * TenTo(n - 1)

\* The number a text of a number input denotes: digits, digits with a
\* sign, or digits with an exponent; any other text denotes none.
Denoted(text) ==
  IF AllDigits(text) THEN [numeric |-> TRUE, val |-> ValueOf(text)]
  ELSE IF text # <<>> /\ Head(text) = "-" /\ AllDigits(Tail(text))
  THEN [numeric |-> TRUE, val |-> 0 - ValueOf(Tail(text))]
  ELSE IF \E k \in 2..(Len(text) - 1) :
            /\ text[k] = "e"
            /\ AllDigits(SubSeq(text, 1, k - 1))
            /\ AllDigits(SubSeq(text, k + 1, Len(text)))
  THEN LET k == CHOOSE j \in 2..(Len(text) - 1) : text[j] = "e"
       IN  [numeric |-> TRUE,
            val |-> ValueOf(SubSeq(text, 1, k - 1))
                      * TenTo(ValueOf(SubSeq(text, k + 1, Len(text))))]
  ELSE [numeric |-> FALSE, val |-> 0]

CountInRange(text) ==
  Denoted(text).numeric /\ Denoted(text).val >= 1 /\ Denoted(text).val <= K

\* C35: the file count is always one of 1..K, and a count-change event
\* whose text is no number, or denotes zero, a negative number or a number
\* above K, leaves the count, the slots and the weights as they are.
C35_CountWithinRange ==
  /\ [](numFiles >= 1 /\ numFiles <= K)
  /\ [][\A text \in CountInputs :
          (HandleNumFilesChange(text) /\ ~CountInRange(text))
            => UNCHANGED formVars]_vars

\* C36: a step that changes the file count leaves exactly that many
\* slots, all absent, and that many weights, all 1; the lists always have
\* the length of the count; and a count-change event for the current
\* count leaves count, slots and weights as they are.
C36_CountChangeResetsSlots ==
  /\ [](Len(fileInputs) = numFiles /\ Len(entrySizes) = numFiles)
  /\ [][numFiles' # numFiles =>
          /\ fileInputs' = Fill(numFiles', NoFile)
          /\ entrySizes' = Fill(numFiles', 1)]_vars
  /\ [][formVars' # formVars =>
          \A text \in CountInputs :
            (AllDigits(text) /\ ValueOf(text) = numFiles)
              => ~HandleNumFilesChange(text)]_vars

\* C36 witness: the submission under way took a selected file with the
\* weight -2; the count was then changed to 2, and the form holds two
\* absent slots with weight 1.
C36_Witness ==
  /\ mounted
  /\ pc = "parsing"
  /\ files = <<FileNamed(CsvName)>>
  /\ sizes = <<0 - 2>>
  /\ numFiles = 2
  /\ fileInputs = Fill(2, NoFile)
  /\ entrySizes = Fill(2, 1)

(* ------------------------------------------------------------------------ *)
(*                         The state of the view                            *)
(* ------------------------------------------------------------------------ *)

\* C37: tables are present only with a stored response, and a stored
\* response and a failure reason are never present together.
C37_ViewStateConsistent ==
  /\ parsedResults # <<>> => apiResponse # JsonNull
  /\ ~(apiResponse # JsonNull /\ error # Null)

\* C38: while no submission is running, the stored response, the tables
\* and the reason change only in the step that triggers a submission;
\* timers that fire late and answers that arrive late leave them alone.
C38_OutcomeStableUntilNextTrigger ==
  [][(pc = "idle" /\ <<apiResponse, parsedResults, error>>' #
                       <<apiResponse, parsedResults, error>>)
       => (~isLoading /\ isLoading')]_vars

\* C38 witness: the submission failed by its deadline, the answer to the
\* aborted request arrived afterwards, and the reason is still the one of
\* the deadline, with no response and no tables.
C38_Witness ==
  /\ mounted
  /\ pc = "idle"
  /\ ~isLoading
  /\ outcomes = 1
  /\ wire = "discarded"
  /\ ~timer
  /\ error = CaughtMsg(AbortError)
  /\ apiResponse = JsonNull
  /\ parsedResults = <<>>

\* C38 witness: the request failed on the network, the timer it left
\* fired afterwards, and the reason is still the one of the network.
C38_WitnessLateTimer ==
  /\ mounted
  /\ pc = "idle"
  /\ outcomes = 1
  /\ wire = "failed"
  /\ ~timer
  /\ error = CaughtMsg(NetworkError)
  /\ apiResponse = JsonNull

(* ------------------------------------------------------------------------ *)
(*                     Lines before the marker and header                   *)
(* ------------------------------------------------------------------------ *)

\* The cells of a line as the parser reads them.
ReadCells(line) == Split(Trim(line), TAB)

\* C39: a report with no "Block Size" line after its marker gives no
\* table, whatever stands before the marker; and in a table the header is
\* read from a "Block Size" line after the marker and every row from a
\* line after the first such line, so that no line before the marker and
\* no line between marker and header is a header or a row.
C39_OnlyLinesAfterMarkerAndHeader ==
  SingleParsed =>
    /\ ~HasHeader(Report) => parsedResults = <<>>
    /\ parsedResults # <<>> =>
         /\ \E h \in HeaderAt(Report)..Len(Report) :
              /\ IsHeaderLike(Report[h])
              /\ parsedResults[1].headers = ReadCells(Report[h])
         /\ Len(parsedResults[1].data) <= Len(Report) - HeaderAt(Report)
         /\ \A r \in 1..Len(parsedResults[1].data) :
              \E k \in (HeaderAt(Report) + 1)..Len(Report) :
                parsedResults[1].data[r] = ReadCells(Report[k])

\* C39 witness: a three-cell "Block Size" line before the marker and a
\* two-cell one after it; the table has the two-cell header.
C39_Witness ==
  /\ SingleParsed
  /\ Report = << <<"Block Size", TAB, "A", TAB, "B">>, <<"Results:">>,
                 <<"Block Size", TAB, "Count">>, <<"4", TAB, "10">> >>
  /\ Len(parsedResults) = 1
  /\ parsedResults[1].headers = RawCells(<<"Block Size", TAB, "Count">>)
  /\ parsedResults[1].data = << RawCells(<<"4", TAB, "10">>) >>

\* C39 witness: a line with the header's cell count between marker and
\* header; the table has only the row that follows the header.
C39_WitnessBetween ==
  /\ SingleParsed
  /\ Report = << <<"Results:">>, <<"8", TAB, "5">>,
                 <<"Block Size", TAB, "Count">>, <<"4", TAB, "10">> >>
  /\ Len(parsedResults) = 1
  /\ parsedResults[1].data = << RawCells(<<"4", TAB, "10">>) >>

====
